---- MODULE Spec2Model ----
(***************************************************************************)
(* A model of planet/clients/data.py: DataClient, the asynchronous client  *)
(* of the Data API (quick_search, get_assets, get_asset, activate,         *)
(* download), with its collaborators (the session's request primitives and *)
(* the paginated iterator Items) and a server that answers requests.       *)
(*                                                                         *)
(* One step of the model is what a coroutine does between two suspension   *)
(* points: asyncio runs the code between two awaits without interleaving.  *)
(***************************************************************************)
EXTENDS Integers, Sequences, FiniteSets, TLC

(***************************************************************************)
(* Bounds of the model.                                                    *)
(***************************************************************************)
MaxPages == 3         \* longest chain of result pages the server holds
MaxPageSize == 2      \* most items on one page
MaxLimit == 3         \* largest limit a caller passes
MaxExtraPulls == 1    \* pulls made on an iterator after it has ended
NumOps == 2           \* operations that may run concurrently

(***************************************************************************)
(* Text.  An exception message and a response body are text, modelled as a *)
(* sequence of tokens: JSON punctuation, JSON string literals, and raw     *)
(* text that is no JSON.                                                   *)
(***************************************************************************)
Punct(c) == [t |-> "punct", s |-> c]
Lit(x) == [t |-> "string", s |-> x]
Raw(x) == [t |-> "raw", s |-> x]

(***************************************************************************)
(* Python values as json.loads builds them: a dict (ordered), a list, a    *)
(* str.  Every value is a record of the same shape; kids holds the members *)
(* of a dict (k the key) or the elements of a list (k empty), in order.    *)
(* A raised exception is a value of type "raise" whose s names its class.  *)
(***************************************************************************)
Str(x) == [t |-> "str", s |-> x, kids |-> <<>>]
List(elems) == [t |-> "list", s |-> "", kids |-> elems]
Dict(members) == [t |-> "dict", s |-> "", kids |-> members]
Raise(cls) == [t |-> "raise", s |-> cls, kids |-> <<>>]
Kid(k, v) == [k |-> k, v |-> v]

IsRaise(v) == v.t = "raise"

\* dict.__setitem__ while decoding an object: a repeated key keeps its first
\* position and takes the last value.
SetItem(members, k, v) ==
  IF \E i \in 1..Len(members) : members[i].k = k
    THEN [i \in 1..Len(members) |->
            IF members[i].k = k THEN Kid(k, v) ELSE members[i]]
    ELSE Append(members, Kid(k, v))

RECURSIVE ParseValue(_, _), ParseElems(_, _, _), ParseMembers(_, _, _)

ParseFail == [ok |-> FALSE, v |-> Raise("JSONDecodeError"), i |-> 0]

\* One JSON value starting at token i: [ok, v, i], i the first token after it.
ParseValue(toks, i) ==
  IF i > Len(toks) THEN ParseFail
  ELSE IF toks[i].t = "string" THEN [ok |-> TRUE, v |-> Str(toks[i].s), i |-> i + 1]
  ELSE IF toks[i] = Punct("[") THEN
    IF i + 1 <= Len(toks) /\ toks[i + 1] = Punct("]")
      THEN [ok |-> TRUE, v |-> List(<<>>), i |-> i + 2]
      ELSE ParseElems(toks, i + 1, <<>>)
  ELSE IF toks[i] = Punct("{") THEN
    IF i + 1 <= Len(toks) /\ toks[i + 1] = Punct("}")
      THEN [ok |-> TRUE, v |-> Dict(<<>>), i |-> i + 2]
      ELSE ParseMembers(toks, i + 1, <<>>)
  ELSE ParseFail

ParseElems(toks, i, acc) ==
  LET r == ParseValue(toks, i) IN
  IF ~r.ok \/ r.i > Len(toks) THEN ParseFail
  ELSE LET acc2 == Append(acc, Kid("", r.v)) IN
    IF toks[r.i] = Punct(",") THEN ParseElems(toks, r.i + 1, acc2)
    ELSE IF toks[r.i] = Punct("]") THEN [ok |-> TRUE, v |-> List(acc2), i |-> r.i + 1]
    ELSE ParseFail

ParseMembers(toks, i, acc) ==
  IF i + 1 > Len(toks) \/ toks[i].t # "string" \/ toks[i + 1] # Punct(":") THEN ParseFail
  ELSE LET r == ParseValue(toks, i + 2) IN
    IF ~r.ok \/ r.i > Len(toks) THEN ParseFail
    ELSE LET acc2 == SetItem(acc, toks[i].s, r.v) IN
      IF toks[r.i] = Punct(",") THEN ParseMembers(toks, r.i + 1, acc2)
      ELSE IF toks[r.i] = Punct("}") THEN [ok |-> TRUE, v |-> Dict(acc2), i |-> r.i + 1]
      ELSE ParseFail

\* json.loads(text): the decoded value, or JSONDecodeError when the text is
\* no single JSON value.
json_loads(toks) ==
  LET r == ParseValue(toks, 1) IN
  IF r.ok /\ r.i = Len(toks) + 1 THEN r.v ELSE Raise("JSONDecodeError")

RECURSIVE json_dumps(_), DumpKids(_, _, _)

\* The JSON text of a value (what the server sends for it).
json_dumps(v) ==
  IF v.t = "str" THEN <<Lit(v.s)>>
  ELSE IF v.t = "list" THEN <<Punct("[")>> \o DumpKids(v.kids, 1, FALSE) \o <<Punct("]")>>
  ELSE <<Punct("{")>> \o DumpKids(v.kids, 1, TRUE) \o <<Punct("}")>>

DumpKids(kids, i, keyed) ==
  IF i > Len(kids) THEN <<>>
  ELSE (IF i > 1 THEN <<Punct(",")>> ELSE <<>>)
       \o (IF keyed THEN <<Lit(kids[i].k), Punct(":")>> ELSE <<>>)
       \o json_dumps(kids[i].v)
       \o DumpKids(kids, i + 1, keyed)

\* v[key] for a str key: a dict member, KeyError when the dict has none, and
\* TypeError on a list or a str (their indices must be integers).
GetItem(v, key) ==
  IF IsRaise(v) THEN v
  ELSE IF v.t = "dict" THEN
    IF \E i \in 1..Len(v.kids) : v.kids[i].k = key
      THEN v.kids[CHOOSE i \in 1..Len(v.kids) : v.kids[i].k = key].v
      ELSE Raise("KeyError")
  ELSE Raise("TypeError")

\* v[0]: the first element of a list (IndexError when empty); on a dict the
\* key 0, which no decoded JSON object has (its keys are strings): KeyError;
\* on a str its first character, a str again (IndexError when empty).
GetFirst(v) ==
  IF IsRaise(v) THEN v
  ELSE IF v.t = "list" THEN
    IF Len(v.kids) > 0 THEN v.kids[1].v ELSE Raise("IndexError")
  ELSE IF v.t = "dict" THEN Raise("KeyError")
  ELSE IF v.s = "" THEN Raise("IndexError") ELSE Str("<first character>")

\* next(iter(v.keys())): the first key of a dict; AttributeError when v has no
\* keys(); StopIteration leaving a coroutine is turned into RuntimeError.
FirstKey(v) ==
  IF IsRaise(v) THEN v
  ELSE IF v.t # "dict" THEN Raise("AttributeError")
  ELSE IF Len(v.kids) = 0 THEN Raise("RuntimeError")
  ELSE Str(v.kids[1].k)

\* The text of an exception built from the value msg: a str gives its text.
MessageText(msg) == IF msg.t = "str" THEN <<Raw(msg.s)>> ELSE json_dumps(msg)

(***************************************************************************)
(* The callers' inputs and the server's data.                              *)
(***************************************************************************)
None == "None"
NoLimit == -1                    \* limit=None: unlimited
Ops == 1..NumOps

DATA_PATH == "data/v1/"
SORT_ORDER == {"acquired asc", "acquired desc", "published asc", "published desc"}

base_url == "https://api.planet.com/"

NoArgs == [name |-> None, page_size |-> None, sort |-> None, strict |-> None]
Args(name, page_size, sort, strict, limit) ==
  [name |-> name, page_size |-> page_size, sort |-> sort, strict |-> strict,
   limit |-> limit]
NoCall == Args(None, None, None, None, NoLimit)

\* The optional arguments of quick_search the callers pass: none, each sort
\* value alone (the four of SORT_ORDER and one outside it), and all four.
ArgInputs ==
  {NoArgs}
  \cup {[NoArgs EXCEPT !.sort = s] : s \in SORT_ORDER \cup {"bogus"}}
  \cup {[name |-> "my-search", page_size |-> "100", sort |-> "acquired desc",
         strict |-> "True"]}

ItemInputs == {[type |-> "PSScene", id |-> "item-1"]}
AssetTypeInputs == {"analytic", "udm"}
AssetInputs == {[activate_url |-> "https://api.planet.com/activate/asset-a"]}

\* The chains of result pages a server may hold: the size of each page.
RECURSIVE SeqsUpTo(_, _)
SeqsUpTo(n, S) ==
  IF n = 0 THEN {<<>>}
  ELSE LET shorter == SeqsUpTo(n - 1, S) IN
       shorter \cup {Append(q, x) : q \in shorter, x \in S}

Chains == SeqsUpTo(MaxPages, 0..MaxPageSize) \ {<<>>}

\* Error bodies.  FieldBody and the two general bodies are the shapes the
\* client expects; the others lack a part of them.
MessageObject(m) == Dict(<<Kid("message", Str(m))>>)
MessageList(ms) == List([i \in 1..Len(ms) |-> Kid("", MessageObject(ms[i]))])
FieldBody(fields) ==
  Dict(<<Kid("field",
             Dict([i \in 1..Len(fields) |->
                     Kid(fields[i].k, MessageList(fields[i].ms))]))>>)
GeneralListBody(ms) == Dict(<<Kid("general", MessageList(ms))>>)
GeneralScalarBody(m) == Dict(<<Kid("general", MessageObject(m))>>)

FieldErrors ==
  { << [k |-> "geometry", ms |-> <<"invalid coordinates">>] >>,
    << [k |-> "item_types", ms |-> <<"unknown item type", "too many item types">>],
       [k |-> "geometry", ms |-> <<"invalid coordinates">>] >> }
GeneralLists == { <<"no such item">>, <<"no such item", "try another id">> }
GeneralScalars == { "no such asset" }

MalformedBodies ==
  { json_dumps(Dict(<<Kid("field", Dict(<<>>))>>)),
    json_dumps(FieldBody(<< [k |-> "geometry", ms |-> <<>>] >>)),
    json_dumps(GeneralListBody(<<>>)),
    json_dumps(Dict(<<Kid("detail", Str("rate limited"))>>)),
    <<Raw("<html>502 Bad Gateway</html>")>> }

Bodies ==
  {json_dumps(FieldBody(f)) : f \in FieldErrors}
  \cup {json_dumps(GeneralListBody(ms)) : ms \in GeneralLists}
  \cup {json_dumps(GeneralScalarBody(m)) : m \in GeneralScalars}
  \cup MalformedBodies

Exception(cls, message) == [cls |-> cls, message |-> message]
NoException == Exception("", <<>>)

\* What _do_request may raise: the two kinds the client translates with every
\* body, and one kind it does not know.
ErrorResponses ==
  {Exception(c, b) : c \in {"BadQuery", "MissingResource"}, b \in Bodies}
  \cup {Exception("APIException", <<Raw("<html>502 Bad Gateway</html>")>>)}

\* The asset records the server holds for an item.
AssetsBody == Dict(<<Kid("analytic", Str("asset-a")), Kid("udm", Str("asset-u"))>>)
ActivatedBody == List(<<Kid("", Str("asset-a"))>>)

\* The inputs of one specification: the limits and optional arguments passed,
\* the failures the server answers with, and the operations that run.
FullInputs ==
  [limits |-> {NoLimit} \cup 0..MaxLimit, args |-> ArgInputs,
   errors |-> ErrorResponses, ops |-> {1}]
ConcInputs ==
  [limits |-> {NoLimit, 1}, args |-> {NoArgs},
   errors |-> {Exception("BadQuery", json_dumps(FieldBody(f))) : f \in FieldErrors}
              \cup {Exception("MissingResource", json_dumps(GeneralScalarBody(m)))
                      : m \in GeneralScalars},
   ops |-> Ops]
ConcChains == {<<1>>, <<1, 1>>}

(***************************************************************************)
(* The collaborators: the session's request primitives, the server's       *)
(* pages, and the paginated iterator Items.                                *)
(***************************************************************************)
NoBody == <<>>

\* _BaseClient._request: the request handle for a method, a URL and an
\* optional JSON body.  A URL is the sequence of the strings concatenated to
\* build it.  No query parameter is set unless the caller passes one.
_request(url, method, data) ==
  [method |-> method, url |-> url, body |-> data, params |-> <<>>]

NoRequest == _request(<<>>, "", NoBody)

\* Item(record): the j-th record of page k.
Item(k, j) == <<k, j>>

\* What the server answers for page k of a chain: the page's records and the
\* link to the next page (0: none).
PageItems(chain, k) == [j \in 1..chain[k] |-> Item(k, j)]
NextLink(chain, k) == IF k < Len(chain) THEN k + 1 ELSE 0

\* Every record of a chain, in page order.
RECURSIVE AllItems(_, _)
AllItems(chain, k) ==
  IF k > Len(chain) THEN <<>> ELSE PageItems(chain, k) \o AllItems(chain, k + 1)

\* Items(request, do_request, limit): the iterator in its initial state.  It
\* holds the initial request, the reference of the page to fetch next (the
\* initial request designates page 1), the records of the current page not
\* yet yielded, and the number of records yielded.
Items(request, limit) ==
  [state |-> "FETCHING", request |-> request, cur |-> <<>>, next |-> 1,
   i |-> 0, limit |-> limit]

NoItems ==
  [state |-> "NONE", request |-> NoRequest, cur |-> <<>>, next |-> 0,
   i |-> 0, limit |-> NoLimit]

\* One "produce next item" on the iterator: yield a record, ask for the fetch
\* of the next page, or end the sequence.
anext(it) ==
  IF it.state # "FETCHING" THEN [act |-> "stop", it |-> it, item |-> Item(0, 0)]
  ELSE IF it.limit # NoLimit /\ it.i >= it.limit
    THEN [act |-> "stop", it |-> [it EXCEPT !.state = "EXHAUSTED"], item |-> Item(0, 0)]
  ELSE IF it.cur # <<>>
    THEN [act |-> "yield", it |-> [it EXCEPT !.cur = Tail(@), !.i = @ + 1],
          item |-> Head(it.cur)]
  ELSE IF it.next # 0 THEN [act |-> "fetch", it |-> it, item |-> Item(0, 0)]
  ELSE [act |-> "stop", it |-> [it EXCEPT !.state = "EXHAUSTED"], item |-> Item(0, 0)]

\* The request that fetches the page the iterator asks for: the initial
\* request, or the initial request sent to the server's next-page link.
PageRequest(it) ==
  IF it.next = 1 THEN it.request ELSE [it.request EXCEPT !.url = <<"_links._next">>]

\* The iterator once the answer for the page it asked for is decoded.
PageFetched(it, chain) ==
  [it EXCEPT !.cur = PageItems(chain, it.next), !.next = NextLink(chain, it.next)]

(***************************************************************************)
(* DataClient: the pure parts of its methods.                              *)
(***************************************************************************)
_data_url == <<base_url, DATA_PATH>>

Raised(exc) == [pc |-> "raised", exc |-> exc, result |-> <<>>]
Returned(value) == [pc |-> "done", exc |-> NoException, result |-> value]

\* An exception raised while the body of an error is taken apart.
Propagated(v) == Exception(v.s, <<>>)

\* quick_search: the request built from the arguments.
quick_search_request(filt, item_types, name, page_size, sort, strict) ==
  LET url == _data_url \o <<"quick-search">>
      search_body == << <<"filter", filt>>, <<"item_types", item_types>> >>
  IN _request(url, "POST", search_body)

\* quick_search: the iterator built for the request (and a faulty variant
\* that does not hand the limit over).
SearchItemsNoLimit(req, limit) == Items(req, NoLimit)
SearchItems(req, limit) == Items(req, limit)

\* quick_search: the list comprehension takes every item the iterator yields
\* (and a faulty variant that keeps the last one only).
ListCompLast(acc, i) == <<i>>
ListComp(acc, i) == Append(acc, i)

\* _request_and_parse: the message of the first error of the first field
\* (and a faulty variant that reads the last field).
BadQueryMessageLastField(message) ==
  LET msg_json == json_loads(message)
      fields == GetItem(msg_json, "field")
  IN IF IsRaise(fields) \/ fields.t # "dict" \/ fields.kids = <<>> THEN FirstKey(fields)
     ELSE GetItem(GetFirst(fields.kids[Len(fields.kids)].v), "message")
BadQueryMessage(message) ==
  LET msg_json == json_loads(message)
      fields == GetItem(msg_json, "field")
      field == FirstKey(fields)
  IN IF IsRaise(field) THEN field
     ELSE GetItem(GetFirst(GetItem(fields, field.s)), "message")

\* _request_and_parse: what leaves it when _do_request raises ex.
_request_and_parse(ex) ==
  IF ex.cls = "BadQuery"
    THEN LET msg == BadQueryMessage(ex.message) IN
         IF IsRaise(msg) THEN Raised(Propagated(msg))
         ELSE Raised(Exception("BadQuery", MessageText(msg)))
    ELSE Raised(ex)

\* get_assets: the request, the except clause and the return.
get_assets_request(item) ==
  _request(_data_url \o <<"item-types/", item.type, "/items/", item.id>>, "GET", NoBody)

\* A faulty variant: reads the body as activate does.
get_assets_message_scalar(message) ==
  GetItem(GetItem(json_loads(message), "general"), "message")
get_assets_message(message) ==
  LET msg_json == json_loads(message)
  IN GetItem(GetFirst(GetItem(msg_json, "general")), "message")

get_assets_except(ex) ==
  IF ex.cls = "MissingResource"
    THEN LET msg == get_assets_message(ex.message) IN
         IF IsRaise(msg) THEN Raised(Propagated(msg))
         ELSE Raised(Exception("MissingResource", MessageText(msg)))
    ELSE Raised(ex)

get_assets_return(body) ==
  LET assets == json_loads(body) IN
  IF IsRaise(assets) THEN Raised(Propagated(assets))
  ELSE IF assets.t # "dict" THEN Raised(Exception("AttributeError", <<>>))
  ELSE Returned([i \in 1..Len(assets.kids) |-> assets.kids[i].v])

\* activate: the request, the except clause and the return.
activate_request(asset) == _request(<<asset.activate_url>>, "GET", NoBody)

\* A faulty variant: reads the body as get_assets does.
activate_message_list(message) ==
  GetItem(GetFirst(GetItem(json_loads(message), "general")), "message")
activate_message(message) ==
  LET msg_json == json_loads(message)
  IN GetItem(GetItem(msg_json, "general"), "message")

activate_except(ex) ==
  IF ex.cls = "MissingResource"
    THEN LET msg == activate_message(ex.message) IN
         IF IsRaise(msg) THEN Raised(Propagated(msg))
         ELSE Raised(Exception("MissingResource", MessageText(msg)))
    ELSE Raised(ex)

\* Iterating a list gives its elements, a dict its keys; a str is not modelled
\* beyond its being iterable.
activate_return(body) ==
  LET assets == json_loads(body) IN
  IF IsRaise(assets) THEN Raised(Propagated(assets))
  ELSE IF assets.t = "dict" THEN Returned([i \in 1..Len(assets.kids) |-> Str(assets.kids[i].k)])
  ELSE Returned([i \in 1..Len(assets.kids) |-> assets.kids[i].v])

(***************************************************************************)
(* The state: the server's chain of result pages, every operation's        *)
(* coroutine, and the requests in flight.                                  *)
(*                                                                         *)
(* An operation records: kind, the method called; pc, where its coroutine  *)
(* is (idle, await, done, raised); args, the optional arguments and the    *)
(* limit quick_search was called with; it and acc, the iterator and the    *)
(* list being built; result and exc, what it returned or raised; and the   *)
(* histories reqs (the page each request sent asked for, 0 for a request   *)
(* that is no page fetch), errs and fault (the failed requests and what    *)
(* the last of them raised), extra and late (pulls made after the iterator *)
(* ended, and those of them that gave an item or a fetch).                 *)
(***************************************************************************)
VARIABLES pages, op, net

vars == <<pages, op, net>>

Idle ==
  [kind |-> "", pc |-> "idle", args |-> NoCall, it |-> NoItems, acc |-> <<>>,
   result |-> <<>>, exc |-> NoException, reqs |-> <<>>, errs |-> 0,
   fault |-> NoException, extra |-> 0, late |-> 0]

InFlight(o) == {r \in net : r.op = o}

\* The coroutine ends with an outcome; its list and, unless it returned, its
\* iterator are released.
Failed(st, ex) == [st EXCEPT !.errs = @ + 1, !.fault = ex]

Finish(st, outcome) ==
  [st EXCEPT !.pc = outcome.pc, !.exc = outcome.exc, !.result = outcome.result,
             !.acc = <<>>,
             !.it = IF outcome.pc = "done" THEN @ ELSE NoItems]

\* _do_request, first half: the request is sent and the coroutine suspends.
\* page is the page of the result the request asks for (0: none).
Sent(o, st, page, req) ==
  [op |-> o, n |-> Len(st.reqs) + 1, page |-> page, req |-> req]

Suspend(st, page) == [st EXCEPT !.pc = "await", !.reqs = Append(@, page)]

\* The list comprehension [i async for i in items], from the iterator state
\* it to its next suspension or its end: [act, it, acc].
RECURSIVE Drain(_, _)
Drain(it, acc) ==
  LET r == anext(it) IN
  IF r.act = "yield" THEN Drain(r.it, ListComp(acc, r.item))
  ELSE [act |-> r.act, it |-> r.it, acc |-> acc]

\* quick_search runs on from the frame st until it awaits a page or returns;
\* rest are the requests of the others still in flight.
RunSearch(o, st, it, acc, rest) ==
  LET r == Drain(it, acc) IN
  IF r.act = "fetch"
    THEN /\ op' = [op EXCEPT ![o] = Suspend([st EXCEPT !.it = r.it, !.acc = r.acc],
                                             r.it.next)]
         /\ net' = rest \cup {Sent(o, st, r.it.next, PageRequest(r.it))}
    ELSE /\ op' = [op EXCEPT ![o] = Finish([st EXCEPT !.it = r.it], Returned(r.acc))]
         /\ net' = rest

(***************************************************************************)
(* The operations.                                                         *)
(***************************************************************************)
quick_search(o, filt, item_types, name, page_size, sort, strict, limit) ==
  /\ op[o].pc = "idle"
  /\ LET req == quick_search_request(filt, item_types, name, page_size, sort, strict)
         items == SearchItems(req, limit)
         frame == [op[o] EXCEPT !.kind = "quick_search",
                                !.args = Args(name, page_size, sort, strict, limit)]
     IN RunSearch(o, frame, items, <<>>, net)
  /\ UNCHANGED pages

\* The server answers the page request of a search with the page.
SearchPage(o) ==
  /\ op[o].pc = "await" /\ op[o].kind = "quick_search"
  /\ \E r \in InFlight(o) :
       /\ r.page = op[o].it.next
       /\ RunSearch(o, op[o], PageFetched(op[o].it, pages), op[o].acc, net \ {r})
  /\ UNCHANGED pages

\* The page request of a search fails with ex (and a faulty variant that
\* returns the items gathered so far).
SearchFailsPartial(o, ex) ==
  /\ op[o].pc = "await" /\ op[o].kind = "quick_search"
  /\ \E r \in InFlight(o) :
       /\ op' = [op EXCEPT ![o] = Finish(Failed(@, ex), Returned(op[o].acc))]
       /\ net' = net \ {r}
  /\ UNCHANGED pages
SearchFails(o, ex) ==
  /\ op[o].pc = "await" /\ op[o].kind = "quick_search"
  /\ \E r \in InFlight(o) :
       /\ op' = [op EXCEPT ![o] = Finish(Failed(@, ex), _request_and_parse(ex))]
       /\ net' = net \ {r}
  /\ UNCHANGED pages

\* A caller pulls again from the iterator of a search that has returned.
PullAgain(o) ==
  /\ op[o].pc = "done" /\ op[o].kind = "quick_search"
  /\ op[o].extra < MaxExtraPulls
  /\ LET r == anext(op[o].it) IN
     op' = [op EXCEPT ![o].extra = @ + 1, ![o].it = r.it,
                      ![o].late = IF r.act = "stop" THEN @ ELSE @ + 1]
  /\ UNCHANGED <<pages, net>>

\* get_assets (and a faulty variant that has two requests in flight).
get_assets_twice(o, item) ==
  /\ op[o].pc = "idle"
  /\ LET req == get_assets_request(item)
         frame == [op[o] EXCEPT !.kind = "get_assets"]
     IN /\ op' = [op EXCEPT ![o] = Suspend(Suspend(frame, 0), 0)]
        /\ net' = net \cup {Sent(o, frame, 0, req), Sent(o, Suspend(frame, 0), 0, req)}
  /\ UNCHANGED pages
get_assets(o, item) ==
  /\ op[o].pc = "idle"
  /\ LET req == get_assets_request(item)
         frame == [op[o] EXCEPT !.kind = "get_assets"]
     IN /\ op' = [op EXCEPT ![o] = Suspend(frame, 0)]
        /\ net' = net \cup {Sent(o, frame, 0, req)}
  /\ UNCHANGED pages

AssetsListed(o) ==
  /\ op[o].pc = "await" /\ op[o].kind = "get_assets"
  /\ \E r \in InFlight(o) :
       /\ op' = [op EXCEPT ![o] = Finish(@, get_assets_return(json_dumps(AssetsBody)))]
       /\ net' = net \ {r}
  /\ UNCHANGED pages

AssetsFails(o, ex) ==
  /\ op[o].pc = "await" /\ op[o].kind = "get_assets"
  /\ \E r \in InFlight(o) :
       /\ op' = [op EXCEPT ![o] = Finish(Failed(@, ex), get_assets_except(ex))]
       /\ net' = net \ {r}
  /\ UNCHANGED pages

\* get_asset (and a faulty variant that returns nothing, silently).
get_asset_silent(o, item, asset_type) ==
  /\ op[o].pc = "idle"
  /\ op' = [op EXCEPT ![o] = Finish([@ EXCEPT !.kind = "get_asset"], Returned(<<>>))]
  /\ UNCHANGED <<pages, net>>
get_asset(o, item, asset_type) ==
  /\ op[o].pc = "idle"
  /\ op' = [op EXCEPT ![o] = Finish([@ EXCEPT !.kind = "get_asset"],
                                    Raised(Exception("NotImplementedError", <<>>)))]
  /\ UNCHANGED <<pages, net>>

activate(o, asset) ==
  /\ op[o].pc = "idle"
  /\ LET req == activate_request(asset)
         frame == [op[o] EXCEPT !.kind = "activate"]
     IN /\ op' = [op EXCEPT ![o] = Suspend(frame, 0)]
        /\ net' = net \cup {Sent(o, frame, 0, req)}
  /\ UNCHANGED pages

Activated(o) ==
  /\ op[o].pc = "await" /\ op[o].kind = "activate"
  /\ \E r \in InFlight(o) :
       /\ op' = [op EXCEPT ![o] = Finish(@, activate_return(json_dumps(ActivatedBody)))]
       /\ net' = net \ {r}
  /\ UNCHANGED pages

ActivateFails(o, ex) ==
  /\ op[o].pc = "await" /\ op[o].kind = "activate"
  /\ \E r \in InFlight(o) :
       /\ op' = [op EXCEPT ![o] = Finish(Failed(@, ex), activate_except(ex))]
       /\ net' = net \ {r}
  /\ UNCHANGED pages

download(o, asset) ==
  /\ op[o].pc = "idle"
  /\ op' = [op EXCEPT ![o] = Finish([@ EXCEPT !.kind = "download"],
                                    Raised(Exception("NotImplementedError", <<>>)))]
  /\ UNCHANGED <<pages, net>>

(***************************************************************************)
(* The specifications.  Spec: one operation with every input.  SpecConc:   *)
(* NumOps operations interleaved, with few inputs each.                    *)
(***************************************************************************)
Step(in) ==
  \E o \in in.ops :
    \/ \E a \in in.args, limit \in in.limits :
         quick_search(o, "filter-1", "PSScene", a.name, a.page_size, a.sort, a.strict, limit)
    \/ SearchPage(o)
    \/ \E ex \in in.errors : SearchFails(o, ex)
    \/ PullAgain(o)
    \/ \E item \in ItemInputs : get_assets(o, item)
    \/ AssetsListed(o)
    \/ \E ex \in in.errors : AssetsFails(o, ex)
    \/ \E item \in ItemInputs, asset_type \in AssetTypeInputs : get_asset(o, item, asset_type)
    \/ \E asset \in AssetInputs : activate(o, asset)
    \/ Activated(o)
    \/ \E ex \in in.errors : ActivateFails(o, ex)
    \/ \E asset \in AssetInputs : download(o, asset)

Init ==
  /\ pages \in Chains
  /\ op = [o \in Ops |-> Idle]
  /\ net = {}

Next == Step(FullInputs)

Spec == Init /\ [][Next]_vars

InitConc ==
  /\ pages \in ConcChains
  /\ op = [o \in Ops |-> Idle]
  /\ net = {}

NextConc == Step(ConcInputs)

SpecConc == InitConc /\ [][NextConc]_vars

(***************************************************************************)
(* The properties.                                                         *)
(***************************************************************************)
Searches == {o \in Ops : op[o].kind = "quick_search"}

Min(a, b) == IF a < b THEN a ELSE b

\* The page that holds the n-th record of a chain, the last page when the
\* chain has fewer records.
LastPageNeeded(chain, n) ==
  LET all == AllItems(chain, 1) IN
  IF n <= Len(all) THEN all[n][1] ELSE Len(chain)

\* C1: quick_search accepts every sort value of SORT_ORDER (and no sort); for
\* any other sort string it ends with an error before any request is made.
C1_SortIsValidated ==
  \A o \in Searches :
    IF op[o].args.sort \in SORT_ORDER \cup {None}
      THEN ~(op[o].pc = "raised" /\ op[o].reqs = <<>>)
      ELSE op[o].pc = "raised" /\ op[o].reqs = <<>> /\ InFlight(o) = {}

\* C2: with a limit L > 0, a search never asks for a page after the one that
\* holds the L-th item, and a search that returns has fetched the pages up to
\* that one, once each and in order, and returns the first min(L, total)
\* items in page order.
C2_LimitBoundsItemsAndFetches ==
  \A o \in Searches :
    op[o].args.limit > 0 =>
      LET L == op[o].args.limit
          all == AllItems(pages, 1)
          last == LastPageNeeded(pages, L)
      IN /\ \A i \in 1..Len(op[o].reqs) : op[o].reqs[i] = i /\ i <= last
         /\ op[o].pc = "done" =>
              /\ op[o].result = SubSeq(all, 1, Min(L, Len(all)))
              /\ op[o].reqs = [i \in 1..last |-> i]

\* A search with limit 3 over pages of sizes 2, 2, 1 returned 3 items and
\* never asked for the third page.
C2_Witness ==
  \E o \in Searches :
    /\ pages = <<2, 2, 1>> /\ op[o].args.limit = 3 /\ op[o].pc = "done"
    /\ Len(op[o].result) = 3 /\ op[o].reqs = <<1, 2>>

\* What holds of every search in every state: pulls made after the end gave
\* nothing; an unlimited search asks for the pages in order, once each; and one
\* that returned has fetched them all and returns every item in page order.
C3_AllItemsOnce ==
  \A o \in Searches :
    /\ op[o].late = 0
    /\ op[o].args.limit = NoLimit =>
         /\ \A i \in 1..Len(op[o].reqs) : op[o].reqs[i] = i /\ i <= Len(pages)
         /\ op[o].pc = "done" =>
              /\ op[o].result = AllItems(pages, 1)
              /\ op[o].reqs = [i \in 1..Len(pages) |-> i]
              /\ op[o].it.state = "EXHAUSTED"
              /\ InFlight(o) = {}

\* A step of a search that awaits a page ends it or moves it to a later page;
\* a search that has returned keeps its result, sends nothing and stays
\* exhausted.
C3_EndsAndStaysEnded ==
  \A o \in Searches :
    /\ (op[o].pc = "await" /\ op'[o] # op[o]) =>
         \/ op'[o].pc \in {"done", "raised"}
         \/ op'[o].pc = "await" /\ op'[o].it.next > op[o].it.next
    /\ op[o].pc = "done" =>
         /\ op'[o].pc = "done" /\ op'[o].result = op[o].result
         /\ op'[o].reqs = op[o].reqs /\ op'[o].it.state = "EXHAUSTED"

\* C3: with no limit, a search fetches every page once, in order, and returns
\* every item of every page once, in page order; every answer brings it
\* nearer its end (the chain is finite); once its iterator is exhausted,
\* further pulls give no item and no fetch and leave it exhausted.
C3_UnlimitedSearchYieldsAll == [](C3_AllItemsOnce) /\ [][C3_EndsAndStaysEnded]_vars

\* An unlimited search over three pages returned its items and was pulled
\* again afterwards.
C3_Witness ==
  \E o \in Searches :
    /\ Len(pages) = 3 /\ op[o].args.limit = NoLimit /\ op[o].pc = "done"
    /\ Len(op[o].result) >= 4 /\ op[o].extra >= 1

\* C4: when a request of quick_search fails with BadQuery and a body
\* {"field": {k1: [{"message": m1}, ...], ...}}, quick_search raises BadQuery
\* with exactly the message m1 and returns nothing.
C4_BadQueryFirstMessage ==
  \A o \in Searches : \A f \in FieldErrors :
    op[o].fault = Exception("BadQuery", json_dumps(FieldBody(f))) =>
      /\ op[o].pc = "raised"
      /\ op[o].exc = Exception("BadQuery", <<Raw(f[1].ms[1])>>)
      /\ op[o].result = <<>>

\* The fetch of a later page failed with a body of two fields, the first of
\* them with two messages.
C4_Witness ==
  \E o \in Searches : \E f \in FieldErrors :
    /\ Len(f) = 2 /\ Len(f[1].ms) = 2
    /\ op[o].fault = Exception("BadQuery", json_dumps(FieldBody(f)))
    /\ Len(op[o].reqs) >= 2 /\ op[o].pc = "raised"

\* C5: when the request of get_assets fails with MissingResource and a body
\* {"general": [{"message": m}, ...]}, get_assets raises MissingResource with
\* exactly the message m and returns no asset list.
C5_GetAssetsFirstGeneralMessage ==
  \A o \in Ops : \A ms \in GeneralLists :
    (/\ op[o].kind = "get_assets"
     /\ op[o].fault = Exception("MissingResource", json_dumps(GeneralListBody(ms)))) =>
      /\ op[o].pc = "raised"
      /\ op[o].exc = Exception("MissingResource", <<Raw(ms[1])>>)
      /\ op[o].result = <<>>

C5_Witness ==
  \E o \in Ops : \E ms \in GeneralLists :
    /\ Len(ms) = 2 /\ op[o].kind = "get_assets" /\ op[o].pc = "raised"
    /\ op[o].fault = Exception("MissingResource", json_dumps(GeneralListBody(ms)))

\* C6: when the request of activate fails with MissingResource and a body
\* {"general": {"message": m}}, activate raises MissingResource with exactly
\* the message m; with the list body of get_assets it raises no
\* MissingResource (another error leaves it).
C6_ActivateScalarGeneralMessage ==
  \A o \in Ops :
    op[o].kind = "activate" =>
      /\ \A m \in GeneralScalars :
           op[o].fault = Exception("MissingResource", json_dumps(GeneralScalarBody(m))) =>
             /\ op[o].pc = "raised"
             /\ op[o].exc = Exception("MissingResource", <<Raw(m)>>)
      /\ \A ms \in GeneralLists :
           op[o].fault = Exception("MissingResource", json_dumps(GeneralListBody(ms))) =>
             /\ op[o].pc = "raised"
             /\ op[o].exc.cls # "MissingResource"

C6_Witness ==
  \E o \in Ops : \E m \in GeneralScalars :
    /\ op[o].kind = "activate" /\ op[o].pc = "raised"
    /\ op[o].fault = Exception("MissingResource", json_dumps(GeneralScalarBody(m)))

\* The list body reached activate, too.
C6_WitnessList ==
  \E o \in Ops : \E ms \in GeneralLists :
    /\ op[o].kind = "activate" /\ op[o].pc = "raised"
    /\ op[o].fault = Exception("MissingResource", json_dumps(GeneralListBody(ms)))

\* C7: get_asset and download always end with NotImplementedError, having
\* sent no request and returned no value, whatever the other operations of
\* the client are doing.
C7_StubsRaiseNotImplemented ==
  \A o \in Ops :
    op[o].kind \in {"get_asset", "download"} =>
      /\ op[o].pc = "raised"
      /\ op[o].exc = Exception("NotImplementedError", <<>>)
      /\ op[o].reqs = <<>>
      /\ InFlight(o) = {}
      /\ op[o].result = <<>>

\* get_asset was called while another operation awaited its response.
C7_Witness ==
  \E o, q \in Ops :
    /\ op[o].kind = "get_asset" /\ op[o].pc = "raised"
    /\ op[q].pc = "await"

\* download was called while another operation awaited its response.
C7_WitnessDownload ==
  \E o, q \in Ops :
    /\ op[o].kind = "download" /\ op[o].pc = "raised"
    /\ op[q].pc = "await"

\* An operation has at most one request in flight, the last it sent, and has
\* one exactly while it awaits.
C8_OneRequestInFlight ==
  \A o \in Ops :
    /\ Cardinality(InFlight(o)) <= 1
    /\ (op[o].pc = "await") <=> (InFlight(o) # {})
    /\ \A r \in InFlight(o) : r.n = Len(op[o].reqs)

\* A step is the step of one operation: the others and their requests stay
\* as they are.
C8_StepsAreLocal ==
  \E o \in Ops : \A q \in Ops \ {o} :
    /\ op'[q] = op[q]
    /\ {r \in net' : r.op = q} = InFlight(q)

\* C8: in every interleaving an operation has at most one request in flight
\* (the fetch of a page starts only after the response of the page before),
\* while several operations may each have one; an operation changes nothing
\* of another.
C8_SequentialRequests == [](C8_OneRequestInFlight) /\ [][C8_StepsAreLocal]_vars

\* Two operations have a request in flight at the same time, one of them a
\* search that asks for its second page.
C8_Witness ==
  \E o, q \in Ops :
    /\ o # q
    /\ op[o].kind = "quick_search" /\ \E r \in InFlight(o) : r.page = 2
    /\ InFlight(q) # {}

\* C9: the first request of a search is a POST to {base_url}data/v1/quick-search
\* with the body {filter, item_types}, and carries each of name, page_size,
\* sort and strict the caller passed as a query parameter.
C9_SearchRequestCarriesParameters ==
  \A r \in net :
    (op[r.op].kind = "quick_search" /\ r.page = 1) =>
      /\ r.req.method = "POST"
      /\ r.req.url = <<base_url, "data/v1/", "quick-search">>
      /\ Len(r.req.body) = 2
      /\ r.req.body[1][1] = "filter" /\ r.req.body[2][1] = "item_types"
      /\ \A p \in {"name", "page_size", "sort", "strict"} :
           op[r.op].args[p] # None =>
             \E i \in 1..Len(r.req.params) : r.req.params[i] = <<p, op[r.op].args[p]>>

\* The part of C9 the request does satisfy: method, URL and body.
C9_SearchRequestShape ==
  \A r \in net :
    (op[r.op].kind = "quick_search" /\ r.page = 1) =>
      /\ r.req.method = "POST"
      /\ r.req.url = <<base_url, "data/v1/", "quick-search">>
      /\ r.req.body = << <<"filter", "filter-1">>, <<"item_types", "PSScene">> >>

\* An operation whose request failed has failed once only, has ended with an
\* error, has returned nothing and has no request in flight.
C10_FailedOperationEnded ==
  \A o \in Ops :
    op[o].errs > 0 =>
      /\ op[o].errs = 1
      /\ op[o].pc = "raised"
      /\ op[o].exc # NoException
      /\ op[o].result = <<>>
      /\ InFlight(o) = {}

\* An operation whose request failed sends no request afterwards.
C10_NoRequestAfterFailure ==
  \A o \in Ops : op[o].errs > 0 => op'[o].reqs = op[o].reqs /\ op'[o].pc = "raised"

\* C10: no request is retried: once a request of an operation has failed
\* (the fetch of a later page and an error body that cannot be taken apart
\* included), the operation sends no further request, ends with an error and
\* returns nothing, not even the items of the pages already fetched.
C10_NoRetry == [](C10_FailedOperationEnded) /\ [][C10_NoRequestAfterFailure]_vars

\* The fetch of the second page failed after the first page had given items,
\* and the body of the error could not be taken apart.
C10_Witness ==
  \E o \in Searches :
    /\ op[o].errs = 1 /\ op[o].reqs = <<1, 2>> /\ pages[1] > 0
    /\ op[o].fault.cls = "BadQuery" /\ op[o].exc.cls = "KeyError"

====
